---- MODULE Spec2Model ----
(***************************************************************************)
(* A model of server.js: the Notion webhook receiver, the debounced reload *)
(* scheduler and the SSE broadcast hub.                                    *)
(*                                                                         *)
(* Strings are sequences of one-character strings.  A request body is a    *)
(* sequence of JSON lexemes: the punctuation "{", "}", ",", the white      *)
(* space " ", and whole members ("a1" stands for "a":1, "a2" for "a":2,    *)
(* "vt" for "verification_token":"tok").  Time is counted in milliseconds. *)
(***************************************************************************)
EXTENDS Integers, Sequences, FiniteSets, TLC

VARIABLES
    WEBHOOK_SECRET,   \* process.env.NOTION_WEBHOOK_SECRET, fixed at start
    now,              \* the clock, in ms
    timers,           \* the runtime's pending setTimeout timers: [id, due]
    reloadTimer,      \* the handle kept in `reloadTimer` (0 is null)
    pingDue,          \* when the setInterval keepalive fires next
    sseClients,       \* the Set of subscribed responses
    stream,           \* per response: "none", "open", "broken" or "closed"
    written,          \* per response: every chunk passed to res.write
    failed,           \* responses for which a res.write did not go through
    calls,            \* history: the times of the scheduleReload calls
    reloads,          \* history: the times of the `reload` broadcasts
    broadcasts,       \* history: the events broadcast, in order
    joined,           \* history: per response, Len(broadcasts) when it was added
    ticks,            \* history: clock advances that stopped short of a timer
    req,              \* the webhook request handled last (or waiting)
    resp,             \* the response given to it
    prevReq,          \* the request before it
    prevResp,         \* and its response
    logged,           \* what the webhook handler wrote to the console for req
    fetching,         \* GET /api/items: "idle", "awaiting", "done" or "failed"
    items,            \* fetchAllItems: the accumulator
    cursor,           \* fetchAllItems: the cursor of the request in flight
    asked,            \* history: the start_cursor of every databases.query call
    answers,          \* history: what the store answered to each
    itemsResp         \* the response of GET /api/items

hubVars == <<now, timers, reloadTimer, pingDue, sseClients, stream, written,
             failed, calls, reloads, broadcasts, joined, ticks>>
reqVars == <<req, resp, prevReq, prevResp>>
fetchVars == <<fetching, items, cursor, asked, answers, itemsResp>>
vars == <<WEBHOOK_SECRET, hubVars, reqVars, logged, fetchVars>>

(***************************************************************************)
(* Bounds of the model.                                                    *)
(***************************************************************************)
MaxBody == 4        \* longest request body, in lexemes
MaxCalls == 1       \* scheduleReload calls in a run of the hub
MaxBurst == 3       \* scheduleReload calls in a run of the scheduler
MaxPings == 1       \* keepalive broadcasts in a run
MaxClients == 2     \* subscribe requests in a run
MaxTicks == 3       \* clock advances that stop short of a timer
MaxLiveCalls == 2   \* scheduleReload calls in a run checked for progress
MaxPages == 2       \* databases.query calls of one fetchAllItems
MaxRecords == 3     \* raw records the store returns to one fetchAllItems

(***************************************************************************)
(* Program constants.                                                      *)
(***************************************************************************)
D == 200            \* the setTimeout delay of scheduleReload
PingInterval == 25000

NoSecret == "undefined"
Secrets == {"s1"}

(***************************************************************************)
(* express.json: the body parser.                                          *)
(***************************************************************************)
BodyAlphabet == <<"{", "}", ",", " ", "a1", "a2", "vt">>
BodyChars == {BodyAlphabet[i] : i \in 1..Len(BodyAlphabet)}
MemberChars == {"a1", "a2", "vt"}

Key(m) == IF m = "vt" THEN "verification_token" ELSE "a"

IsSpace(c) == c = " "
NotSpace(c) == ~IsSpace(c)
Strip(raw) == SelectSeq(raw, NotSpace)

\* JSON.parse accepts: an object of members separated by commas.
ValidJson(raw) ==
    LET s == Strip(raw)
        n == Len(s)
    IN  /\ n >= 2
        /\ s[1] = "{"
        /\ s[n] = "}"
        /\ \/ n = 2
           \/ /\ n % 2 = 1
              /\ \A i \in 2..(n-1) :
                    IF i % 2 = 0 THEN s[i] \in MemberChars ELSE s[i] = ","

\* obj[key] = value on a JS object: a key keeps the place of its first
\* insertion and takes the value assigned last.
Put(obj, m) ==
    IF \E i \in 1..Len(obj) : Key(obj[i]) = Key(m)
    THEN [i \in 1..Len(obj) |-> IF Key(obj[i]) = Key(m) THEN m ELSE obj[i]]
    ELSE Append(obj, m)

RECURSIVE PutAll(_, _)
PutAll(obj, ms) ==
    IF ms = <<>> THEN obj ELSE PutAll(Put(obj, Head(ms)), Tail(ms))

IsMember(c) == c \in MemberChars

\* req.body as express.json leaves it: {} for a request without a body,
\* the parsed object otherwise.  Only called on what the parser accepts.
ParseBody(raw) ==
    IF raw = <<>> THEN <<>> ELSE PutAll(<<>>, SelectSeq(Strip(raw), IsMember))

\* The request reaches the route handler (otherwise express.json answers 400).
ParserAccepts(raw) == raw = <<>> \/ ValidJson(raw)

RECURSIVE Join(_)
Join(ms) ==
    IF ms = <<>> THEN <<>>
    ELSE IF Len(ms) = 1 THEN ms
    ELSE <<Head(ms), ",">> \o Join(Tail(ms))

\* JSON.stringify(req.body)
JSONstringify(obj) == <<"{">> \o Join(obj) \o <<"}">>

(***************************************************************************)
(* Strings, Buffers and the HMAC.                                          *)
(***************************************************************************)
HexChars == <<"0", "1", "2", "3", "4", "5", "6", "7",
              "8", "9", "a", "b", "c", "d", "e", "f">>
HexDigit(n) == HexChars[n + 1]

\* A character outside ASCII that an HTTP header value may carry (node
\* decodes header bytes as latin1, so byte 0xE9 arrives as U+00E9).
NonAscii == "U+00E9"

\* Buffer.from(str): the UTF-8 bytes of the string.
RECURSIVE BufferFrom(_)
BufferFrom(str) ==
    IF str = <<>> THEN <<>>
    ELSE (IF Head(str) = NonAscii THEN <<"0xC3", "0xA9">> ELSE <<Head(str)>>)
         \o BufferFrom(Tail(str))

\* crypto.timingSafeEqual(a, b) throws a RangeError when the byte lengths
\* differ, and otherwise compares the bytes.
timingSafeEqualThrows(a, b) == Len(a) # Len(b)
timingSafeEqual(a, b) == a = b

Code(c) == CHOOSE i \in 1..Len(BodyAlphabet) : BodyAlphabet[i] = c
SecretCode(secret) == IF secret = "s1" THEN 8 ELSE 9

\* createHmac('sha256', secret).update(msg).digest('hex'): a keyed digest of
\* fixed length in hex digits.  HMAC-SHA256 is taken as collision free: the
\* digest here is one-to-one on the (secret, message) pairs of the model.
DigestLen == MaxBody + 1
HmacHex(secret, msg) ==
    [i \in 1..DigestLen |->
        IF i = 1 THEN HexDigit(SecretCode(secret))
        ELSE IF i - 1 <= Len(msg) THEN HexDigit(Code(msg[i - 1]))
        ELSE "0"]

Prefix == <<"s", "h", "a", "2", "5", "6", "=">>
\* The value the sender puts in X-Notion-Signature for a body.
Sign(secret, msg) == Prefix \o HmacHex(secret, msg)

(***************************************************************************)
(* POST /api/notion-webhook.  What the handler answers and whether it      *)
(* reaches scheduleReload, for a secret, the received body and the value   *)
(* of the signature header ("" when absent).                               *)
(***************************************************************************)
Reply(status, body, schedule) ==
    [status |-> status, body |-> body, schedule |-> schedule]

HasToken(obj) == \E i \in 1..Len(obj) : obj[i] = "vt"

\* Faulty variant: the outcome of the signature check is not acted on.
notionWebhook_IgnoreMismatch(secret, raw, signatureHeader) ==
    IF ~ParserAccepts(raw) THEN Reply(400, "parse_failed", FALSE)
    ELSE IF HasToken(ParseBody(raw)) /\ secret = NoSecret
    THEN Reply(200, "verification", FALSE)
    ELSE Reply(200, "ok_true", TRUE)

\* Faulty variant: the verification branch goes on to scheduleReload.
notionWebhook_ChallengeSchedules(secret, raw, signatureHeader) ==
    IF ~ParserAccepts(raw) THEN Reply(400, "parse_failed", FALSE)
    ELSE IF HasToken(ParseBody(raw)) /\ secret = NoSecret
    THEN Reply(200, "verification", TRUE)
    ELSE IF secret # NoSecret THEN Reply(202, "signature_mismatch", FALSE)
    ELSE Reply(200, "ok_true", TRUE)

notionWebhook(secret, raw, signatureHeader) ==
    IF ~ParserAccepts(raw) THEN Reply(400, "parse_failed", FALSE)
    ELSE
    LET body == ParseBody(raw)
        payloadMinified == JSONstringify(body)
        calc == Sign(secret, payloadMinified)
    IN  IF HasToken(body) /\ secret = NoSecret
        THEN Reply(200, "verification", FALSE)
        ELSE IF secret # NoSecret /\ Len(signatureHeader) = Len(calc)
                /\ timingSafeEqualThrows(BufferFrom(signatureHeader), BufferFrom(calc))
        THEN Reply(500, "ok_false", FALSE)
        ELSE IF secret # NoSecret
                /\ ~(/\ Len(signatureHeader) = Len(calc)
                     /\ timingSafeEqual(BufferFrom(signatureHeader), BufferFrom(calc)))
        THEN Reply(202, "signature_mismatch", FALSE)
        ELSE Reply(200, "ok_true", TRUE)

\* What the handler writes to the console on its way to that answer, as
\* <<level, message>> lines: the three console.log lines of the verification
\* branch, the console.warn of a mismatch, the console.error of the catch
\* block.  No other path of the handler writes anything.
consoleOutput(secret, raw, signatureHeader) ==
    LET r == notionWebhook(secret, raw, signatureHeader)
    IN  IF r.body = "verification"
        THEN <<<<"log", "verification_token received:">>, <<"log", "token">>,
               <<"log", "hint">>>>
        ELSE IF r.body = "signature_mismatch"
        THEN <<<<"warn", "signature mismatch, ignoring.">>>>
        ELSE IF r.body = "ok_false"
        THEN <<<<"error", "exception">>>>
        ELSE <<>>

(***************************************************************************)
(* The SSE hub: sseSend, sseBroadcast, and the timers.                     *)
(***************************************************************************)
Clients == 1..MaxClients

\* sseSend(res, event, data): two res.write calls, the event line and the
\* data line.
Chunks(event) == << <<"event", event>>, <<"data", event>> >>
sseSend(w, res, event) == [w EXCEPT ![res] = @ \o Chunks(event)]

\* Faulty variant: the loop stops after the first client.
sseBroadcast_FirstOnly(w, clients, event) ==
    [c \in Clients |->
        IF c \in clients /\ \A b \in clients : c <= b
        THEN sseSend(w, c, event)[c] ELSE w[c]]

\* sseBroadcast(event, data): sseSend to every member of sseClients.
sseBroadcast(w, clients, event) ==
    [c \in Clients |-> IF c \in clients THEN sseSend(w, c, event)[c] ELSE w[c]]

\* The writes of a broadcast that do not go through: those to a response
\* whose peer is gone.  Nothing in sseBroadcast looks at the outcome.
Undelivered(clients) == {c \in clients : stream[c] = "broken"}

\* Faulty variant: the pending timer is not cleared.
clearTimeout_Noop(ts, handle) == ts
clearTimeout(ts, handle) == {t \in ts : t.id # handle}
\* Faulty variant: no timer is set.
setTimeout_Dropped(ts, id, delay) == ts
setTimeout(ts, id, delay) == ts \cup {[id |-> id, due |-> now + delay]}

\* Faulty variant: the new timer is set beside the pending one.
scheduleReload_NoClear(ts, handle, id) == setTimeout(ts, id, D)

\* Faulty variant: the timer is set for twice the quiet period.
scheduleReload_Late(ts, handle, id) == setTimeout(clearTimeout(ts, handle), id, D + D)

\* scheduleReload(): the pending timers after clearTimeout(reloadTimer) and
\* the setTimeout of 200 ms whose handle is stored in reloadTimer.
scheduleReload(ts, handle, id) == setTimeout(clearTimeout(ts, handle), id, D)

IsPing(e) == e = "ping"
\* The number of keepalives among the events bs.
Pings(bs) == Len(SelectSeq(bs, IsPing))

Min(S) == CHOOSE x \in S : \A y \in S : x <= y
\* The moment the next pending timer (reload or keepalive) is due.
NextDue == Min({t.due : t \in timers} \cup {pingDue})

NoReq == [body |-> <<"-">>, sig |-> <<>>]
NoResp == Reply(0, "none", FALSE)

(***************************************************************************)
(* GET /api/items: pageToItem and fetchAllItems.  A raw page carries its   *)
(* id and the two properties a name is read from; each is a title          *)
(* property (an array of rich-text segments, a segment being its           *)
(* plain_text, a string of characters) or has no .title at all.            *)
(***************************************************************************)
NoTitle == [present |-> FALSE, title |-> <<>>]
Title(segments) == [present |-> TRUE, title |-> segments]

RECURSIVE trimStart(_)
trimStart(str) ==
    IF str # <<>> /\ Head(str) = " " THEN trimStart(Tail(str)) ELSE str
RECURSIVE trimEnd(_)
trimEnd(str) ==
    IF str # <<>> /\ str[Len(str)] = " "
    THEN trimEnd(SubSeq(str, 1, Len(str) - 1)) ELSE str
\* String.prototype.trim
trim(str) == trimEnd(trimStart(str))

\* props['item name']?.title || props['Name']?.title || [] : an array, empty
\* or not, is truthy; only a missing .title passes on to the next operand.
titleOf(p) ==
    IF p.itemName.present THEN p.itemName.title
    ELSE IF p.Name.present THEN p.Name.title
    ELSE <<>>

\* title[0]?.plain_text || ''
plainText(title) == IF title = <<>> THEN <<>> ELSE title[1]

\* pageToItem(p), as far as id and name go.
pageToItem(p) == [id |-> p.id, name |-> trim(plainText(titleOf(p)))]

\* The filter of fetchAllItems: x => x.name
hasName(x) == x.name # <<>>

\* resp.results.map(pageToItem).filter(x => x.name)
Normalized(results) ==
    SelectSeq([i \in 1..Len(results) |-> pageToItem(results[i])], hasName)

\* Faulty variant: the page read last goes in front.
accumulate_Prepend(acc, results) == Normalized(results) \o acc
\* items.concat(...)
accumulate(acc, results) == acc \o Normalized(results)

Undefined == "undefined"
Null == "null"
Cursors == {"c1", "c2"}
\* while (cursor)
Truthy(c) == c \notin {Undefined, Null}
\* resp.has_more ? resp.next_cursor : undefined
nextCursor(answer) == IF answer.has_more THEN answer.next_cursor ELSE Undefined

\* The raw pages of the store: named by 'item name', named by 'Name' only
\* (with a leading blank), with no name at all, with an 'item name' of no
\* segments beside a 'Name', and with a blank 'item name' beside a 'Name'.
RawPages ==
    {[id |-> "p1", itemName |-> Title(<<<<"T">>>>), Name |-> NoTitle],
     [id |-> "p2", itemName |-> NoTitle, Name |-> Title(<<<<" ", "U">>>>)],
     [id |-> "p3", itemName |-> NoTitle, Name |-> NoTitle],
     [id |-> "p4", itemName |-> Title(<<>>), Name |-> Title(<<<<"V">>>>)],
     [id |-> "p5", itemName |-> Title(<<<<" ">>>>), Name |-> Title(<<<<"W">>>>)]}

\* What databases.query resolves to: a page of up to n distinct raw pages,
\* has_more and next_cursor.
StoreAnswers(n) ==
    {[ok |-> TRUE, results |-> rs, has_more |-> h, next_cursor |-> c] :
        rs \in {q \in UNION {[1..k -> RawPages] : k \in 0..n} :
                   \A i, j \in 1..Len(q) : i # j => q[i] # q[j]},
        h \in BOOLEAN, c \in Cursors \cup {Null}}
\* databases.query rejects.
Failure == [ok |-> FALSE, results |-> <<>>, has_more |-> FALSE, next_cursor |-> Null]

RECURSIVE Returned(_)
\* The number of raw pages in a sequence of answers.
Returned(as) ==
    IF as = <<>> THEN 0 ELSE Len(Head(as).results) + Returned(Tail(as))

NoItemsResp == [status |-> 0, body |-> [none |-> TRUE]]

FetchIdle ==
    /\ fetching = "idle"
    /\ items = <<>>
    /\ cursor = Undefined
    /\ asked = <<>>
    /\ answers = <<>>
    /\ itemsResp = NoItemsResp

\* GET /api/items arrives: fetchAllItems starts and issues its first
\* databases.query, with start_cursor undefined.
GetItems ==
    /\ fetching \in {"idle", "done", "failed"}
    /\ fetching' = "awaiting"
    /\ items' = <<>>
    /\ cursor' = Undefined
    /\ asked' = <<Undefined>>
    /\ answers' = <<>>
    /\ itemsResp' = NoItemsResp
    /\ UNCHANGED <<WEBHOOK_SECRET, hubVars, reqVars, logged>>

\* The awaited databases.query resolves: the rest of the loop body, then
\* either the next query or the return and res.json({ items }).
PageArrives(answer) ==
    /\ fetching = "awaiting"
    /\ answers' = Append(answers, answer)
    /\ items' = accumulate(items, answer.results)
    /\ cursor' = nextCursor(answer)
    /\ IF Truthy(nextCursor(answer))
       THEN /\ asked' = Append(asked, nextCursor(answer))
            /\ UNCHANGED <<fetching, itemsResp>>
       ELSE /\ fetching' = "done"
            /\ itemsResp' = [status |-> 200,
                             body |-> [items |-> accumulate(items, answer.results)]]
            /\ UNCHANGED asked
    /\ UNCHANGED <<WEBHOOK_SECRET, hubVars, reqVars, logged>>

\* Faulty variant: what was read before the failure is sent.
PageFails_Partial ==
    /\ fetching = "awaiting"
    /\ answers' = Append(answers, Failure)
    /\ fetching' = "failed"
    /\ itemsResp' = [status |-> 200, body |-> [items |-> items]]
    /\ UNCHANGED <<WEBHOOK_SECRET, hubVars, reqVars, logged, items, cursor, asked>>

\* The awaited databases.query rejects: fetchAllItems throws, the catch
\* block of the route answers 500.
PageFails ==
    /\ fetching = "awaiting"
    /\ answers' = Append(answers, Failure)
    /\ fetching' = "failed"
    /\ itemsResp' = [status |-> 500,
                     body |-> [error |-> "notion query failed", detail |-> "message"]]
    /\ UNCHANGED <<WEBHOOK_SECRET, hubVars, reqVars, logged, items, cursor, asked>>

(***************************************************************************)
(* The requests the environment sends in the hub specification.            *)
(***************************************************************************)
Minified == <<"{", "a1", "}">>
Spaced == <<"{", " ", "a1", "}">>
Challenge == <<"{", "vt", "}">>
\* A string of the length of s whose last character is outside ASCII.
WithNonAscii(s) == [i \in 1..Len(s) |-> IF i = Len(s) THEN NonAscii ELSE s[i]]

HubInit ==
    /\ now = 0
    /\ timers = {}
    /\ reloadTimer = 0
    /\ pingDue = PingInterval
    /\ sseClients = {}
    /\ stream = [c \in Clients |-> "none"]
    /\ written = [c \in Clients |-> <<>>]
    /\ failed = {}
    /\ calls = <<>>
    /\ reloads = <<>>
    /\ broadcasts = <<>>
    /\ joined = [c \in Clients |-> 0]
    /\ ticks = 0

Init ==
    /\ WEBHOOK_SECRET \in Secrets \cup {NoSecret}
    /\ HubInit
    /\ req = NoReq
    /\ resp = NoResp
    /\ prevReq = NoReq
    /\ prevResp = NoResp
    /\ logged = <<>>
    /\ FetchIdle

\* Faulty variant: the response joins sseClients without the hello event.
Subscribe_NoHello(c) ==
    /\ stream[c] = "none"
    /\ \A b \in Clients : b < c => stream[b] # "none"
    /\ stream' = [stream EXCEPT ![c] = "open"]
    /\ sseClients' = sseClients \cup {c}
    /\ joined' = [joined EXCEPT ![c] = Len(broadcasts)]
    /\ UNCHANGED <<WEBHOOK_SECRET, now, timers, reloadTimer, pingDue, written, failed,
                   calls, reloads, broadcasts, ticks, reqVars, logged, fetchVars>>

\* GET /api/stream: hello is written, the response joins sseClients and the
\* close listener is registered, all in one turn of the event loop.
Subscribe(c) ==
    /\ stream[c] = "none"
    /\ \A b \in Clients : b < c => stream[b] # "none"
    /\ stream' = [stream EXCEPT ![c] = "open"]
    /\ written' = sseSend(written, c, "hello")
    /\ sseClients' = sseClients \cup {c}
    /\ joined' = [joined EXCEPT ![c] = Len(broadcasts)]
    /\ UNCHANGED <<WEBHOOK_SECRET, now, timers, reloadTimer, pingDue, failed,
                   calls, reloads, broadcasts, ticks, reqVars, logged, fetchVars>>

\* The peer of a stream goes away; the close event is not delivered yet.
Drop(c) ==
    /\ stream[c] = "open"
    /\ stream' = [stream EXCEPT ![c] = "broken"]
    /\ UNCHANGED <<WEBHOOK_SECRET, now, timers, reloadTimer, pingDue, sseClients,
                   written, failed, calls, reloads, broadcasts, joined, ticks, reqVars, logged, fetchVars>>

\* Faulty variant: the close listener does not delete the response.
Close_NoDelete(c) ==
    /\ stream[c] = "broken"
    /\ stream' = [stream EXCEPT ![c] = "closed"]
    /\ UNCHANGED <<WEBHOOK_SECRET, now, timers, reloadTimer, pingDue, sseClients,
                   written, failed, calls, reloads, broadcasts, joined, ticks, reqVars, logged, fetchVars>>

\* req.on('close'): sseClients.delete(res).
Close(c) ==
    /\ stream[c] = "broken"
    /\ stream' = [stream EXCEPT ![c] = "closed"]
    /\ sseClients' = sseClients \ {c}
    /\ UNCHANGED <<WEBHOOK_SECRET, now, timers, reloadTimer, pingDue,
                   written, failed, calls, reloads, broadcasts, joined, ticks, reqVars, logged, fetchVars>>

\* POST /api/notion-webhook with a body and a signature header.
Webhook(raw, sig) ==
    LET r == notionWebhook(WEBHOOK_SECRET, raw, sig)
    IN  /\ req' = [body |-> raw, sig |-> sig]
        /\ resp' = r
        /\ logged' = consoleOutput(WEBHOOK_SECRET, raw, sig)
        /\ IF r.schedule
           THEN /\ timers' = scheduleReload(timers, reloadTimer, Len(calls) + 1)
                /\ reloadTimer' = Len(calls) + 1
                /\ calls' = Append(calls, now)
           ELSE UNCHANGED <<timers, reloadTimer, calls>>
        /\ UNCHANGED <<WEBHOOK_SECRET, now, pingDue, sseClients, stream, written,
                       failed, reloads, broadcasts, joined, ticks, prevReq, prevResp,
                       fetchVars>>

\* Faulty variant: the callback broadcasts reload twice.
FireReload_Twice(t) ==
    /\ t \in timers
    /\ t.due = now
    /\ timers' = timers \ {t}
    /\ written' = sseBroadcast(sseBroadcast(written, sseClients, "reload"),
                               sseClients, "reload")
    /\ failed' = failed \cup Undelivered(sseClients)
    /\ reloads' = Append(Append(reloads, now), now)
    /\ broadcasts' = Append(Append(broadcasts, "reload"), "reload")
    /\ UNCHANGED <<WEBHOOK_SECRET, now, reloadTimer, pingDue, sseClients, stream,
                   calls, joined, ticks, reqVars, logged, fetchVars>>

\* A timer set by scheduleReload is due and its callback runs:
\* sseBroadcast('reload', ...).
FireReload(t) ==
    /\ t \in timers
    /\ t.due = now
    /\ timers' = timers \ {t}
    /\ written' = sseBroadcast(written, sseClients, "reload")
    /\ failed' = failed \cup Undelivered(sseClients)
    /\ reloads' = Append(reloads, now)
    /\ broadcasts' = Append(broadcasts, "reload")
    /\ UNCHANGED <<WEBHOOK_SECRET, now, reloadTimer, pingDue, sseClients, stream,
                   calls, joined, ticks, reqVars, logged, fetchVars>>

\* Faulty variant: the keepalive cancels the reload timers.
Ping_CancelsReload ==
    /\ pingDue = now
    /\ pingDue' = now + PingInterval
    /\ timers' = {}
    /\ written' = sseBroadcast(written, sseClients, "ping")
    /\ failed' = failed \cup Undelivered(sseClients)
    /\ broadcasts' = Append(broadcasts, "ping")
    /\ UNCHANGED <<WEBHOOK_SECRET, now, reloadTimer, sseClients, stream,
                   calls, reloads, joined, ticks, reqVars, logged, fetchVars>>

\* The setInterval callback: sseBroadcast('ping', ...).
Ping ==
    /\ pingDue = now
    /\ pingDue' = now + PingInterval
    /\ written' = sseBroadcast(written, sseClients, "ping")
    /\ failed' = failed \cup Undelivered(sseClients)
    /\ broadcasts' = Append(broadcasts, "ping")
    /\ UNCHANGED <<WEBHOOK_SECRET, now, timers, reloadTimer, sseClients, stream,
                   calls, reloads, joined, ticks, reqVars, logged, fetchVars>>

\* Time passes, by less than it takes the next timer to come due or up to
\* that moment.  A due timer fires before the clock moves on; what else
\* happens at that moment may come before it or after it.
Steps == {50, 100}
Tick(d) ==
    /\ now + d <= NextDue
    /\ now' = now + d
    /\ ticks' = ticks + 1
    /\ UNCHANGED <<WEBHOOK_SECRET, timers, reloadTimer, pingDue, sseClients, stream,
                   written, failed, calls, reloads, broadcasts, joined, reqVars, logged, fetchVars>>

\* The event loop idles until the next timer is due.
Sleep ==
    /\ now < NextDue
    /\ now' = NextDue
    /\ UNCHANGED <<WEBHOOK_SECRET, timers, reloadTimer, pingDue, sseClients, stream,
                   written, failed, calls, reloads, broadcasts, joined, ticks, reqVars, logged, fetchVars>>

Request(raw, sig) == [body |-> raw, sig |-> sig]

\* The hub specification: every operation of the server but the passing of
\* time short of a timer, in runs of at most MaxCalls accepted webhooks and
\* MaxPings keepalives.
HubRequests ==
    {Request(Minified, Sign("s1", Minified)), Request(Minified, <<>>),
     Request(Challenge, <<>>)}

Next ==
    \/ \E c \in Clients : Subscribe(c)
    \/ \E c \in Clients : Drop(c)
    \/ \E c \in Clients : Close(c)
    \/ \E r \in HubRequests : Webhook(r.body, r.sig) /\ Len(calls') <= MaxCalls
    \/ \E t \in timers : FireReload(t)
    \/ Ping /\ Pings(broadcasts') <= MaxPings
    \/ Sleep /\ (Pings(broadcasts) < MaxPings \/ now' < pingDue)

Spec == Init /\ [][Next]_vars

\* The scheduler specification: webhooks, the reload timer and the clock in
\* steps of 50 ms, in the time before the first keepalive, in runs of at
\* most MaxBurst accepted webhooks and MaxTicks ticks.
WebhookRequests ==
    HubRequests \cup
    {Request(Minified, WithNonAscii(Sign("s1", Minified))),
     Request(Spaced, Sign("s1", Spaced)),
     Request(Challenge, Sign("s1", Challenge))}

NextDebounce ==
    \/ \E r \in WebhookRequests : Webhook(r.body, r.sig) /\ Len(calls') <= MaxBurst
    \/ \E t \in timers : FireReload(t)
    \/ \E d \in Steps : Tick(d) /\ ticks' <= MaxTicks
    \/ Sleep /\ now' < pingDue

SpecDebounce == Init /\ [][NextDebounce]_vars

\* The authentication specification: one webhook request out of every body
\* of at most MaxBody lexemes and a signature header that is absent, signed
\* over the received bytes, signed over the re-serialised body, signed with
\* another secret, cut short, extended or carrying a non-ASCII character;
\* it is delivered, and an accepted request is sent once more with one
\* lexeme of the body or one character of the header changed.
AllBodies == UNION {[1..n -> BodyChars] : n \in 0..MaxBody}

HeaderCases(raw) ==
    LET signed == Sign("s1", raw)
    IN  {<<>>, signed, Sign("s2", raw),
         Sign("s1", JSONstringify(ParseBody(raw))),
         SubSeq(signed, 1, Len(signed) - 1), Append(signed, "0"),
         WithNonAscii(signed)}

HeaderChars == {HexChars[i] : i \in 1..Len(HexChars)} \cup {NonAscii}

\* The requests that differ from r in exactly one place.
Mutations(r) ==
    UNION {{Request([r.body EXCEPT ![i] = c], r.sig) : c \in BodyChars \ {r.body[i]}} :
              i \in 1..Len(r.body)}
    \cup
    UNION {{Request(r.body, [r.sig EXCEPT ![i] = c]) : c \in HeaderChars \ {r.sig[i]}} :
              i \in 1..Len(r.sig)}

InitAuth ==
    /\ WEBHOOK_SECRET \in Secrets \cup {NoSecret}
    /\ HubInit
    /\ \E raw \in AllBodies : \E sig \in HeaderCases(raw) : req = Request(raw, sig)
    /\ resp = NoResp
    /\ prevReq = NoReq
    /\ prevResp = NoResp
    /\ logged = <<>>
    /\ FetchIdle

\* The waiting request reaches the server.
Deliver ==
    /\ resp = NoResp
    /\ Webhook(req.body, req.sig)

\* A request the server accepted is sent again, changed in one place.
Mutate ==
    /\ resp.schedule
    /\ prevReq = NoReq
    /\ prevReq' = req
    /\ prevResp' = resp
    /\ req' \in Mutations(req)
    /\ resp' = NoResp
    /\ logged' = <<>>
    /\ UNCHANGED <<WEBHOOK_SECRET, hubVars, fetchVars>>

NextAuth ==
    \/ Deliver
    \/ Mutate

SpecAuth == InitAuth /\ [][NextAuth]_vars

\* The fetch specification: GET /api/items against a store that answers
\* each query with any page or with a failure, in fetches of at most
\* MaxPages queries and MaxRecords raw pages.
NextFetch ==
    \/ GetItems
    \/ \E answer \in StoreAnswers(MaxRecords) :
          /\ PageArrives(answer)
          /\ Len(asked') <= MaxPages
          /\ Returned(answers') <= MaxRecords
    \/ PageFails

SpecFetch == Init /\ [][NextFetch]_vars

\* The scheduler specification with the event loop's progress: a due timer's
\* callback runs, and an idle loop wakes at the next timer; in runs of at
\* most MaxLiveCalls accepted webhooks and MaxTicks ticks.
NextLive ==
    \/ \E r \in WebhookRequests : Webhook(r.body, r.sig) /\ Len(calls') <= MaxLiveCalls
    \/ \E t \in timers : FireReload(t)
    \/ \E d \in Steps : Tick(d) /\ ticks' <= MaxTicks
    \/ Sleep /\ now' < pingDue

SpecLive ==
    /\ Init
    /\ [][NextLive]_vars
    /\ WF_vars(\E t \in timers : FireReload(t))
    /\ WF_vars(Sleep /\ now' < pingDue)

(***************************************************************************)
(* Properties.                                                             *)
(***************************************************************************)
\* The digest the handler compares the signature header with.
calcOf(raw) == Sign(WEBHOOK_SECRET, JSONstringify(ParseBody(raw)))
Configured == WEBHOOK_SECRET # NoSecret
Last(q) == q[Len(q)]
EmittedAt(t) == \E j \in 1..Len(reloads) : reloads[j] = t
Gap(i) == calls[i + 1] - calls[i]

\* Calls j..k are a burst: the gaps inside are below D, and the calls
\* before and after, if any, are at least D away.
Burst(j, k) ==
    /\ \A i \in j..(k - 1) : Gap(i) < D
    /\ j = 1 \/ Gap(j - 1) >= D
    /\ k = Len(calls) \/ Gap(k) >= D

\* The reload timer of call k has been left to run out: the next call came
\* more than D later, or there is none and more than D has passed.
Settled(k) ==
    IF k < Len(calls) THEN Gap(k) > D ELSE now > calls[k] + D

\* The reloads broadcast after call j and no later than D after call k.
ReloadsOf(j, k) ==
    {m \in 1..Len(reloads) : calls[j] < reloads[m] /\ reloads[m] <= calls[k] + D}

\* C1: for every burst of scheduleReload calls with gaps below D, no reload
\* is broadcast before D has passed since its last call, and once its timer
\* has run out exactly one has been, at D after the last call.
C1_BurstGivesOneReload ==
    \A j \in 1..Len(calls) : \A k \in j..Len(calls) : Burst(j, k) =>
        IF Settled(k)
        THEN /\ Cardinality(ReloadsOf(j, k)) = 1
             /\ \A m \in ReloadsOf(j, k) : reloads[m] = calls[k] + D
        ELSE k = Len(calls) =>
             \/ ReloadsOf(j, k) = {} /\ timers # {}
             \/ /\ now = calls[k] + D
                /\ Cardinality(ReloadsOf(j, k)) = 1
                /\ \A m \in ReloadsOf(j, k) : reloads[m] = calls[k] + D

\* Scenario A: calls at 0, 50 and 100 ms, one reload at 300 ms.
C1_Witness == calls = <<0, 50, 100>> /\ reloads = <<300>>

\* C2: with a secret configured, a step that handles a webhook whose
\* signature header differs from the digest the handler computes is not
\* answered 200, calls no scheduleReload, leaves the pending timers and the
\* timer handle as they were and broadcasts nothing.
C2_MismatchNeverTrusted ==
    [][(/\ Configured
        /\ <<req, resp>>' # <<req, resp>>
        /\ req'.sig # calcOf(req'.body))
       => /\ resp'.status # 200
          /\ ~resp'.schedule
          /\ UNCHANGED <<timers, reloadTimer, calls, reloads, broadcasts, written>>]_vars

\* A mismatching webhook has been answered 202 while a reload timer is pending.
C2_Witness ==
    /\ Configured
    /\ resp.status = 202
    /\ req.sig # calcOf(req.body)
    /\ timers # {}

\* C3: with a secret configured, every webhook that reaches the handler with
\* a signature header other than the computed digest is answered 202
\* signature_mismatch (never 500).
C3_MismatchAnswered202 ==
    (/\ Configured
     /\ resp # NoResp
     /\ ParserAccepts(req.body)
     /\ req.sig # calcOf(req.body))
    => resp.status = 202 /\ resp.body = "signature_mismatch"

\* C4: with a secret configured, every webhook whose signature header is
\* the HMAC of the bytes of the received JSON body is answered 200 {ok:true}
\* and schedules a reload.
C4_SignedBytesTrusted ==
    (/\ Configured
     /\ resp # NoResp
     /\ ValidJson(req.body)
     /\ req.sig = Sign(WEBHOOK_SECRET, req.body))
    => resp.status = 200 /\ resp.body = "ok_true" /\ resp.schedule

\* C5: with a secret configured, a request signed over its body and
\* accepted, sent again with one lexeme of the body or one character of
\* the header changed, is answered 202 signature_mismatch when it reaches
\* the handler and schedules no reload.
C5_MutationUntrusted ==
    (/\ Configured
     /\ prevReq # NoReq
     /\ prevReq.sig = Sign(WEBHOOK_SECRET, prevReq.body)
     /\ resp # NoResp
     /\ ParserAccepts(req.body))
    => resp.status = 202 /\ resp.body = "signature_mismatch" /\ ~resp.schedule

\* C6 as stated: two consecutive calls at least D apart have a reload
\* broadcast D after the earlier one.
C6_GapAtLeastD ==
    \A i \in 1..(Len(calls) - 1) : Gap(i) >= D => EmittedAt(calls[i] + D)

\* C6, amended: two consecutive calls more than D apart have a reload
\* broadcast D after the earlier one, and every later call whose timer is
\* left to run out has another, D after that call.
C6_GapAboveD ==
    \A i \in 1..(Len(calls) - 1) : Gap(i) > D =>
        /\ EmittedAt(calls[i] + D)
        /\ \A k \in (i + 1)..Len(calls) : Settled(k) =>
              /\ EmittedAt(calls[k] + D)
              /\ Len(reloads) >= 2

\* Calls at 0 and 250 ms, reloads at 200 and 450 ms.
C6_Witness == calls = <<0, 250>> /\ reloads = <<200, 450>> /\ now > 450

\* C7: a subscriber to which a write of a broadcast did not go through is
\* no longer in the active set.
C7_FailedWriteRemoves == failed \cap sseClients = {}

RECURSIVE Lines(_)
\* The chunks of a sequence of events.
Lines(events) ==
    IF events = <<>> THEN <<>> ELSE Chunks(Head(events)) \o Lines(Tail(events))

\* C8: what has been written to an open member of the active set is hello
\* followed by, once each and in order, the event line and the data line
\* of every broadcast issued since it was added.
C8_EveryBroadcastOnce ==
    \A c \in sseClients : stream[c] = "open" =>
        written[c] = Chunks("hello")
                     \o Lines(SubSeq(broadcasts, joined[c] + 1, Len(broadcasts)))

\* Two open subscribers, the second added between two broadcasts.
C8_Witness ==
    /\ \A c \in Clients : c \in sseClients /\ stream[c] = "open"
    /\ \E c \in Clients : joined[c] = 0
    /\ \E c \in Clients : joined[c] = 1
    /\ Len(broadcasts) >= 2

\* C9: the active set holds exactly the responses that have subscribed and
\* whose close event has not been delivered, and nothing is written to a
\* response after its close event.
C9_ClosedNeverWritten ==
    [][/\ sseClients' = {c \in Clients : stream'[c] \in {"open", "broken"}}
       /\ \A c \in Clients : stream[c] = "closed" =>
             written'[c] = written[c] /\ stream'[c] = "closed"]_vars

\* A broadcast has been issued after a subscriber's close event.
C9_Witness ==
    \E c \in Clients :
        /\ stream[c] = "closed"
        /\ Len(written[c]) < Len(Chunks("hello"))
                             + Len(Lines(SubSeq(broadcasts, joined[c] + 1, Len(broadcasts))))

\* C10: a response that has subscribed was added to the active set in the
\* step that wrote hello to it; hello is the first event written to it and
\* is written once; nothing is written to a response that has not subscribed.
C10_HelloFirstOnce ==
    \A c \in Clients :
        IF stream[c] = "none"
        THEN written[c] = <<>> /\ c \notin sseClients
        ELSE /\ c \in sseClients \/ stream[c] = "closed"
             /\ Len(written[c]) >= 2
             /\ SubSeq(written[c], 1, 2) = Chunks("hello")
             /\ \A i \in 3..Len(written[c]) : written[c][i][2] # "hello"

\* A subscriber has been sent a reload or a ping after its hello.
C10_Witness == \E c \in Clients : Len(written[c]) > 2

\* C11: with no secret configured, a step that handles a webhook whose body
\* carries a verification token answers 200 {ok:true, step:"verification"},
\* calls no scheduleReload, leaves the pending timers, the timer handle and
\* the subscriber set as they were and writes nothing to any subscriber.
C11_ChallengeChangesNothing ==
    [][(/\ ~Configured
        /\ <<req, resp>>' # <<req, resp>>
        /\ ParserAccepts(req'.body)
        /\ HasToken(ParseBody(req'.body)))
       => /\ resp' = Reply(200, "verification", FALSE)
          /\ UNCHANGED <<timers, reloadTimer, calls, reloads, broadcasts, written,
                         sseClients, stream, pingDue>>]_vars

\* A challenge has been answered while a reload timer is pending and a
\* subscriber is connected.
C11_Witness ==
    /\ ~Configured
    /\ resp = Reply(200, "verification", FALSE)
    /\ timers # {}
    /\ sseClients # {}

\* C12: with no secret configured, every webhook that reaches the handler
\* without a verification token is answered 200 {ok:true}, schedules a
\* reload, and has a warning written to the console for it.
C12_PermissiveWarns ==
    (/\ ~Configured
     /\ resp # NoResp
     /\ ParserAccepts(req.body)
     /\ ~HasToken(ParseBody(req.body)))
    => /\ resp = Reply(200, "ok_true", TRUE)
       /\ \E i \in 1..Len(logged) : logged[i][1] = "warn"

RECURSIVE Concat(_)
\* The items of a sequence of answers, page after page.
Concat(as) ==
    IF as = <<>> THEN <<>> ELSE Normalized(Head(as).results) \o Concat(Tail(as))

\* C13: the first query of a fetch carries no cursor and each later one the
\* next_cursor of the answer before it; a query follows an answer exactly
\* when that answer has has_more set and a cursor; and the list returned is
\* the named items of every answer, page after page, each page in the
\* order the store gave.
C13_CursorChainAndOrder ==
    fetching \in {"awaiting", "done"} =>
        /\ asked[1] = Undefined
        /\ \A i \in 1..Len(answers) :
              /\ answers[i].ok
              /\ i < Len(asked) <=>
                    answers[i].has_more /\ answers[i].next_cursor \in Cursors
              /\ i < Len(asked) => asked[i + 1] = answers[i].next_cursor
        /\ Len(asked) = Len(answers) + (IF fetching = "awaiting" THEN 1 ELSE 0)
        /\ items = Concat(answers)
        /\ Len(items) = Cardinality({<<i, j>> \in (1..Len(answers)) \X (1..MaxRecords) :
                                        /\ j <= Len(answers[i].results)
                                        /\ hasName(pageToItem(answers[i].results[j]))})
        /\ fetching = "done" => itemsResp = [status |-> 200, body |-> [items |-> items]]

\* Two pages of three raw pages, one of them without a name: two items,
\* the first page's before the second's.
C13_Witness ==
    /\ fetching = "done"
    /\ Len(answers) = 2
    /\ Len(answers[1].results) = 2
    /\ Returned(answers) = 3
    /\ Len(items) = 2
    /\ items[1] = pageToItem(answers[1].results[1])
    /\ items[2] = pageToItem(answers[2].results[1])

\* What one of the two name properties resolves to by itself.
Resolved(prop) == IF prop.present THEN trim(plainText(prop.title)) ELSE <<>>

\* C14: of the raw pages a finished fetch was given, the returned list
\* holds an item for exactly those of which 'item name' or 'Name' resolves
\* to a non-empty name, and no returned item has an empty name.
C14_ExcludedIffBothEmpty ==
    fetching = "done" =>
        /\ \A i \in 1..Len(answers) : \A j \in 1..Len(answers[i].results) :
              LET p == answers[i].results[j]
              IN  (Resolved(p.itemName) # <<>> \/ Resolved(p.Name) # <<>>)
                  <=> \E k \in 1..Len(itemsResp.body.items) :
                         itemsResp.body.items[k].id = p.id
        /\ \A k \in 1..Len(itemsResp.body.items) : itemsResp.body.items[k].name # <<>>

\* C15: when a query of a fetch fails, it is the last query of that fetch
\* (none follows it, none is repeated), every query before it succeeded,
\* and the endpoint answers 500 {error, detail} without items; an answer of
\* 200 is given only when no query failed.
C15_FailureAborts ==
    /\ \A i \in 1..Len(answers) : ~answers[i].ok => fetching = "failed" /\ i = Len(answers)
    /\ fetching = "failed" =>
          /\ ~answers[Len(answers)].ok
          /\ Len(asked) = Len(answers)
          /\ itemsResp.status = 500
          /\ DOMAIN itemsResp.body = {"error", "detail"}
    /\ itemsResp.status = 200 => fetching = "done"

\* The second query failed after the first had brought items.
C15_Witness ==
    /\ fetching = "failed"
    /\ Len(answers) = 2
    /\ Normalized(answers[1].results) # <<>>

\* C16: the ids of the items of a returned list are pairwise distinct.
C16_IdsDistinct ==
    fetching = "done" =>
        \A i, j \in 1..Len(itemsResp.body.items) :
            i # j => itemsResp.body.items[i].id # itemsResp.body.items[j].id

\* C17: the n-th keepalive is due at n times 25 s and the clock does not
\* pass it; only the keepalive itself moves that moment, by 25 s, and it
\* writes ping to every subscriber and leaves the reload timers and the
\* timer handle alone; a webhook, a reload or a change of the reload
\* timers leaves the moment of the next keepalive alone.
C17_PingIndependent ==
    /\ [](pingDue = (Pings(broadcasts) + 1) * PingInterval /\ now <= pingDue)
    /\ [][/\ pingDue' # pingDue =>
               /\ now = pingDue
               /\ pingDue' = pingDue + PingInterval
               /\ broadcasts' = Append(broadcasts, "ping")
               /\ \A c \in Clients :
                     written'[c] = IF c \in sseClients
                                   THEN written[c] \o Chunks("ping") ELSE written[c]
               /\ UNCHANGED <<timers, reloadTimer, reloads, calls>>
          /\ (calls' # calls \/ reloads' # reloads \/ timers' # timers
                \/ reloadTimer' # reloadTimer)
             => UNCHANGED pingDue]_vars

\* A keepalive has been broadcast to a subscriber at an instant at which a
\* reload timer is pending.
C17_Witness ==
    /\ Pings(broadcasts) >= 1
    /\ Last(broadcasts) = "ping"
    /\ timers # {}
    /\ \E c \in sseClients : Last(written[c])[2] = "ping"

\* C18 as stated: there is at most one pending timer, it is the one
\* reloadTimer names, set for D after the last call, and when none is
\* pending reloadTimer is empty.
C18_SlotEmptyAfterFire ==
    /\ Cardinality(timers) <= 1
    /\ \A t \in timers : t.id = reloadTimer /\ t.due = Last(calls) + D
    /\ timers = {} => reloadTimer = 0

\* C18, amended: there is at most one pending timer, it is the one
\* reloadTimer names, set for D after the last call; a call leaves exactly
\* the timer it sets; a timer that fires broadcasts one reload and leaves
\* no timer pending, while reloadTimer goes on naming the timer that fired
\* until the next call.
C18_OneTimerOutstanding ==
    /\ [](/\ Cardinality(timers) <= 1
          /\ \A t \in timers : t.id = reloadTimer /\ t.due = Last(calls) + D
          /\ reloadTimer = Len(calls))
    /\ [][/\ calls' # calls =>
               timers' = {[id |-> reloadTimer', due |-> now + D]}
          /\ reloads' # reloads =>
               /\ reloads' = Append(reloads, now)
               /\ timers # {} /\ timers' = {}
               /\ reloadTimer' = reloadTimer /\ reloadTimer # 0]_vars

\* A call has replaced a pending timer, and the timer of a later call has
\* fired.
C18_Witness ==
    /\ Len(calls) >= 3
    /\ calls[2] < calls[1] + D
    /\ reloads # <<>>
    /\ timers = {}
    /\ reloadTimer = Len(calls)

\* C19: there are never more reloads than accepted calls; every reload came
\* D after an accepted call that was received no earlier than the reload
\* before it; and a step that handles a webhook it does not accept sets no
\* timer and broadcasts nothing.
C19_NoSpuriousReload ==
    /\ [](/\ Len(reloads) <= Len(calls)
          /\ \A m \in 1..Len(reloads) : \E k \in 1..Len(calls) :
                /\ reloads[m] = calls[k] + D
                /\ m > 1 => reloads[m - 1] <= calls[k])
    /\ [][(<<req, resp>>' # <<req, resp>> /\ ~resp'.schedule)
          => UNCHANGED <<timers, reloadTimer, calls, reloads, broadcasts>>]_vars

\* A reload has been broadcast, and since then a challenge and nothing
\* else has been handled.
C19_Witness ==
    /\ reloads # <<>>
    /\ timers = {}
    /\ resp.body = "verification"
    /\ Len(calls) = Len(reloads)

\* C20: every accepted call is eventually followed by a reload at D after
\* it or later; and a reload is broadcast only when D has passed since
\* every call accepted so far, each of which had been answered by then.
C20_EventuallyReloaded ==
    /\ \A n \in 1..MaxLiveCalls :
          (Len(calls) >= n)
          ~> (Len(calls) >= n /\ \E m \in 1..Len(reloads) : reloads[m] >= calls[n] + D)
    /\ [][reloads' # reloads =>
             /\ calls' = calls
             /\ \A n \in 1..Len(calls) : now >= calls[n] + D]_vars

\* Two calls less than D apart, and the reload D after the second.
C20_Witness ==
    /\ Len(calls) = 2
    /\ calls[2] > calls[1]
    /\ reloads = <<calls[2] + D>>

====
